---- MODULE Spec2Model ----
(***************************************************************************)
(* Model of multi_agent_trip_planner.py: a Streamlit script that is run    *)
(* top to bottom on every refresh against a per-session state.  One run of *)
(* the script is one step.  Texts are sequences of one-character strings,  *)
(* so that strip(), lower(), startswith() and int() are computed.          *)
(***************************************************************************)
EXTENDS Integers, Sequences, FiniteSets, TLC

(***************************************************************************)
(* Text helpers (Python str methods used by the script).                   *)
(***************************************************************************)
None == <<"None">>

Whitespace == {" ", "\n", "\t"}

UpperCase == <<"A", "B", "C", "D", "E", "F", "G", "H", "I", "J", "K", "L", "M",
               "N", "O", "P", "Q", "R", "S", "T", "U", "V", "W", "X", "Y", "Z">>

LowerCase == <<"a", "b", "c", "d", "e", "f", "g", "h", "i", "j", "k", "l", "m",
               "n", "o", "p", "q", "r", "s", "t", "u", "v", "w", "x", "y", "z">>

Digits == <<"0", "1", "2", "3", "4", "5", "6", "7", "8", "9">>

Range(f) == {f[i] : i \in DOMAIN f}

SetMin(S) == CHOOSE x \in S : \A y \in S : x <= y

SetMax(S) == CHOOSE x \in S : \A y \in S : y <= x

\* bool(x) of a str-or-None value
Truthy(x) == x # None /\ x # <<>>

\* str.strip()
Strip(s) ==
  LET keep == {i \in 1..Len(s) : s[i] \notin Whitespace}
  IN  IF keep = {} THEN <<>> ELSE SubSeq(s, SetMin(keep), SetMax(keep))

LowerChar(c) ==
  IF \E i \in 1..26 : UpperCase[i] = c
  THEN LowerCase[CHOOSE i \in 1..26 : UpperCase[i] = c]
  ELSE c

\* str.lower()
Lower(s) == [i \in 1..Len(s) |-> LowerChar(s[i])]

\* str.startswith(p)
StartsWith(s, p) == Len(s) >= Len(p) /\ SubSeq(s, 1, Len(p)) = p

IsDigit(c) == c \in Range(Digits)

DigitVal(c) == (CHOOSE i \in 1..10 : Digits[i] = c) - 1

RECURSIVE DigitsValue(_)
DigitsValue(s) ==
  IF s = <<>> THEN 0
  ELSE LET n == Len(s)
       IN  IF s[n] = "_" THEN DigitsValue(SubSeq(s, 1, n - 1))
           ELSE 10 * DigitsValue(SubSeq(s, 1, n - 1)) + DigitVal(s[n])

\* int(s) for a str: surrounding whitespace, an optional sign, then digits
\* with single underscores between them; anything else is a ValueError.
ParseInt(s) ==
  LET t    == Strip(s)
      sgn  == t # <<>> /\ t[1] \in {"+", "-"}
      body == IF sgn THEN SubSeq(t, 2, Len(t)) ELSE t
      ok   == /\ body # <<>>
              /\ \A i \in 1..Len(body) : IsDigit(body[i]) \/ body[i] = "_"
              /\ IsDigit(body[1]) /\ IsDigit(body[Len(body)])
              /\ \A i \in 1..(Len(body) - 1) : ~(body[i] = "_" /\ body[i + 1] = "_")
      mag  == DigitsValue(body)
  IN  [ok |-> ok,
       val |-> IF ~ok THEN 0 ELSE IF sgn /\ t[1] = "-" THEN 0 - mag ELSE mag]

(***************************************************************************)
(* Literal texts of the script.                                            *)
(***************************************************************************)
Day == <<"D", "a", "y">>

day == <<"d", "a", "y">>

ItineraryFailedText ==
  <<"I", "t", "i", "n", "e", "r", "a", "r", "y", " ", "g", "e", "n", "e", "r",
    "a", "t", "i", "o", "n", " ", "f", "a", "i", "l", "e", "d", ".">>

AskDestination == "Where would you like to travel?"

AskDays == "How many days will your trip be?"

AskBudget == "What's your budget? (low-range, mid-range, luxury)"

AskDeparture == "Which city will you be departing from?"

InvalidNumber == "Please enter a valid number."

RevisionFailed == "Failed to apply the change correctly. Try rewording your input."

Questions == {AskDestination, AskDays, AskBudget, AskDeparture}

(***************************************************************************)
(* Results of the two search adapters.  A result is either one of the      *)
(* adapter's fixed texts or a list of summary lines joined by newlines.    *)
(***************************************************************************)
Unset == [kind |-> "unset", text |-> "", lines |-> <<>>]

TextResult(t) == [kind |-> "text", text |-> t, lines |-> <<>>]

LinesResult(ls) == [kind |-> "lines", text |-> "", lines |-> ls]

NoFlightsText == "No flights found or invalid data structure from SerpAPI."

FlightExceptionText == "Exception occurred while fetching flights: {e}"

NoHotelsText == "No hotels found via SerpAPI."

NoHotelMatchText == "No hotels matched the chosen budget."

SearchFlights == "GoogleSearch:google_flights"

SearchHotels == "GoogleSearch:google_hotels"

NoCode == "None"

\* lines 74-82
iata_mapping ==
  {<<<<"a", "h", "m", "e", "d", "a", "b", "a", "d">>, "AMD">>,
   <<<<"g", "o", "a">>, "GOI">>,
   <<<<"d", "e", "l", "h", "i">>, "DEL">>,
   <<<<"m", "u", "m", "b", "a", "i">>, "BOM">>,
   <<<<"b", "a", "n", "g", "a", "l", "o", "r", "e">>, "BLR">>,
   <<<<"c", "h", "e", "n", "n", "a", "i">>, "MAA">>,
   <<<<"k", "o", "l", "k", "a", "t", "a">>, "CCU">>,
   <<<<"h", "y", "d", "e", "r", "a", "b", "a", "d">>, "HYD">>,
   <<<<"j", "a", "i", "p", "u", "r">>, "JAI">>,
   <<<<"k", "o", "c", "h", "i">>, "COK">>,
   <<<<"p", "a", "r", "i", "s">>, "CDG">>,
   <<<<"l", "o", "n", "d", "o", "n">>, "LHR">>,
   <<<<"n", "e", "w", " ", "y", "o", "r", "k">>, "JFK">>,
   <<<<"l", "o", "s", " ", "a", "n", "g", "e", "l", "e", "s">>, "LAX">>,
   <<<<"t", "o", "k", "y", "o">>, "NRT">>,
   <<<<"d", "u", "b", "a", "i">>, "DXB">>,
   <<<<"s", "i", "n", "g", "a", "p", "o", "r", "e">>, "SIN">>,
   <<<<"s", "y", "d", "n", "e", "y">>, "SYD">>,
   <<<<"t", "o", "r", "o", "n", "t", "o">>, "YYZ">>,
   <<<<"f", "r", "a", "n", "k", "f", "u", "r", "t">>, "FRA">>,
   <<<<"h", "o", "n", "g", " ", "k", "o", "n", "g">>, "HKG">>,
   <<<<"a", "m", "s", "t", "e", "r", "d", "a", "m">>, "AMS">>,
   <<<<"b", "a", "n", "g", "k", "o", "k">>, "BKK">>,
   <<<<"s", "h", "a", "n", "g", "h", "a", "i">>, "PVG">>,
   <<<<"b", "e", "i", "j", "i", "n", "g">>, "PEK">>,
   <<<<"s", "e", "o", "u", "l">>, "ICN">>,
   <<<<"d", "o", "h", "a">>, "DOH">>,
   <<<<"z", "u", "r", "i", "c", "h">>, "ZRH">>,
   <<<<"k", "u", "a", "l", "a", " ", "l", "u", "m", "p", "u", "r">>, "KUL">>}

\* iata_mapping.get(city.lower().strip()), lines 84-85
iata_get(city) ==
  LET key == Strip(Lower(city))
  IN  IF \E e \in iata_mapping : e[1] = key
      THEN (CHOOSE e \in iata_mapping : e[1] = key)[2]
      ELSE NoCode

\* the orders in which "/".join can list a set of names
Perms(S) == {p \in [1..Cardinality(S) -> S] : Range(p) = S}

\* lines 113-115: one summary line of a flight; a missing price is <<>>
FlightLines(f) ==
  {[carrier |-> c, price |-> f.price, grouped |-> f.price # <<>>] :
     c \in Perms(Range(f.flights))}

RECURSIVE FlightSummaries(_)
\* lines 111-116: the summaries of a list of flights, in its order
FlightSummaries(fs) ==
  IF fs = <<>> THEN {<<>>}
  ELSE {<<l>> \o rest : l \in FlightLines(Head(fs)), rest \in FlightSummaries(Tail(fs))}

\* FirstThree without the slice
FirstThree_all(fs) == fs

\* flights[:3]
FirstThree(fs) == SubSeq(fs, 1, IF Len(fs) < 3 THEN Len(fs) ELSE 3)

\* lines 73-119: the outcomes get_flight_info can have on a search response
get_flight_info(departure, arrival, resp) ==
  LET departure_code == iata_get(departure)
      arrival_code   == iata_get(arrival)
      params  == [departure_id |-> departure_code, arrival_id |-> arrival_code]
      flights == IF resp.best_flights # <<>> THEN resp.best_flights
                 ELSE resp.other_flights
  IN  IF resp.raises
      THEN {[result |-> TextResult(FlightExceptionText),
             calls |-> <<[to |-> SearchFlights, params |-> params]>>, raised |-> FALSE]}
      ELSE IF flights = <<>>
      THEN {[result |-> TextResult(NoFlightsText),
             calls |-> <<[to |-> SearchFlights, params |-> params]>>, raised |-> FALSE]}
      ELSE {[result |-> LinesResult(ls),
             calls |-> <<[to |-> SearchFlights, params |-> params]>>, raised |-> FALSE] :
              ls \in FlightSummaries(FirstThree(flights))}

\* price_caps_get with the luxury ceiling as the default
price_caps_get_luxury_default(budget) ==
  IF budget = <<"l", "o", "w", "-", "r", "a", "n", "g", "e">> THEN 4000
  ELSE IF budget = <<"m", "i", "d", "-", "r", "a", "n", "g", "e">> THEN 9000
  ELSE 90000

\* lines 141-142
price_caps_get(budget) ==
  IF budget = <<"l", "o", "w", "-", "r", "a", "n", "g", "e">> THEN 4000
  ELSE IF budget = <<"m", "i", "d", "-", "r", "a", "n", "g", "e">> THEN 9000
  ELSE IF budget = <<"l", "u", "x", "u", "r", "y">> THEN 90000
  ELSE 9000

\* line 147: price and price <= cap; a missing price (None) is <<>>
Shortlisted(price, cap) == price # <<>> /\ price[1] # 0 /\ price[1] <= cap

RECURSIVE Shortlist(_, _, _)
\* lines 143-150: the loop over props, with the shortlist built so far
Shortlist(props, cap, shortlist) ==
  IF props = <<>> THEN shortlist
  ELSE LET h    == Head(props)
           next == IF Shortlisted(h.price, cap)
                   THEN Append(shortlist, [name |-> h.name, price |-> h.price[1]])
                   ELSE shortlist
       IN  IF Len(next) = 3 THEN next ELSE Shortlist(Tail(props), cap, next)

\* lines 122-152
get_hotel_info(city, budget, resp) ==
  LET params    == [q |-> city]
      cap       == price_caps_get(budget)
      shortlist == Shortlist(resp.properties, cap, <<>>)
  IN  IF resp.raises
      THEN [result |-> Unset, calls |-> <<[to |-> SearchHotels, params |-> params]>>,
            raised |-> TRUE]
      ELSE [result |-> IF resp.properties = <<>> THEN TextResult(NoHotelsText)
                       ELSE IF shortlist = <<>> THEN TextResult(NoHotelMatchText)
                       ELSE LinesResult(shortlist),
            calls |-> <<[to |-> SearchHotels, params |-> params]>>, raised |-> FALSE]

\* generate_full_itinerary with a second kickoff after the first
generate_full_itinerary_retry(prefs, fo, hresp, lresp) ==
  LET h     == get_hotel_info(prefs["destination"], prefs["budget"], hresp)
      tasks == <<"flight_task", "hotel_task", "itinerary_task">>
      made  == IF lresp.raised_in = 0 THEN 3 ELSE lresp.raised_in
      once  == [i \in 1..made |-> [to |-> "LLM", params |-> [task |-> tasks[i]]]]
      llm   == once \o once
  IN  IF h.raised
      THEN [raised |-> TRUE, calls |-> fo.calls \o h.calls,
            flights_txt |-> fo.result, hotels_txt |-> Unset, itinerary |-> <<>>]
      ELSE IF lresp.raised_in # 0
      THEN [raised |-> TRUE, calls |-> fo.calls \o h.calls \o llm,
            flights_txt |-> fo.result, hotels_txt |-> h.result, itinerary |-> <<>>]
      ELSE [raised |-> FALSE, calls |-> fo.calls \o h.calls \o llm,
            flights_txt |-> fo.result, hotels_txt |-> h.result,
            itinerary |-> IF lresp.output # None THEN lresp.output
                          ELSE ItineraryFailedText]

\* lines 155-224: synthesis on the flight outcome fo, the hotel search
\* response hresp and the crew's run lresp.  kickoff runs the three tasks in
\* order, one model call each; raised_in names the task whose call raises
\* (0: none), output is itinerary_task.output as a text, or None.
generate_full_itinerary(prefs, fo, hresp, lresp) ==
  LET h     == get_hotel_info(prefs["destination"], prefs["budget"], hresp)
      tasks == <<"flight_task", "hotel_task", "itinerary_task">>
      made  == IF lresp.raised_in = 0 THEN 3 ELSE lresp.raised_in
      llm   == [i \in 1..made |-> [to |-> "LLM", params |-> [task |-> tasks[i]]]]
  IN  IF h.raised
      THEN [raised |-> TRUE, calls |-> fo.calls \o h.calls,
            flights_txt |-> fo.result, hotels_txt |-> Unset, itinerary |-> <<>>]
      ELSE IF lresp.raised_in # 0
      THEN [raised |-> TRUE, calls |-> fo.calls \o h.calls \o llm,
            flights_txt |-> fo.result, hotels_txt |-> h.result, itinerary |-> <<>>]
      ELSE [raised |-> FALSE, calls |-> fo.calls \o h.calls \o llm,
            flights_txt |-> fo.result, hotels_txt |-> h.result,
            itinerary |-> IF lresp.output # None THEN lresp.output
                          ELSE ItineraryFailedText]

(***************************************************************************)
(* The external collaborators: what a search and the model may answer.     *)
(***************************************************************************)
MaxFlights == 4

MaxProps == 4

Flight(i) ==
  [price   |-> IF i % 3 = 0 THEN <<>> ELSE <<4000 + i>>,
   flights |-> IF i % 2 = 0 THEN <<"Air India", "Vistara">> ELSE <<"IndiGo">>]

FlightLists == {[j \in 1..n |-> Flight(j + k)] : n \in 0..MaxFlights, k \in {0, 1}}

FlightRaises == [raises |-> TRUE, error |-> "", best_flights |-> <<>>, other_flights |-> <<>>]

FlightResponses ==
  {FlightRaises} \cup
  {[raises |-> FALSE, error |-> e, best_flights |-> b, other_flights |-> o] :
     e \in {"", "Invalid API key."}, b \in FlightLists, o \in FlightLists}

Prices == {<<>>, <<0>>, <<4000>>, <<9000>>, <<90000>>, <<90001>>}

HotelNames == <<"H1", "H2", "H3", "H4", "H5", "H6">>

PropLists ==
  UNION {{[i \in 1..n |-> [name |-> HotelNames[i], price |-> ps[i]]] :
            ps \in [1..n -> Prices]} : n \in 0..MaxProps}

HotelRaises == [raises |-> TRUE, properties |-> <<>>]

HotelResponses ==
  {HotelRaises} \cup {[raises |-> FALSE, properties |-> ps] : ps \in PropLists}

RespDay1 == <<"D", "a", "y", " ", "1">>

Respday2 == <<"d", "a", "y", " ", "2">>

RespSpDay3 == <<" ", "D", "a", "y", " ", "3">>

RespSorry == <<"S", "o", "r", "r", "y">>

ModelTexts == {RespDay1, Respday2, RespSpDay3, RespSorry}

\* runs of the synthesis crew
CrewRuns ==
  {[raised_in |-> i, output |-> None] : i \in 1..3} \cup
  {[raised_in |-> 0, output |-> t] : t \in ModelTexts \cup {None}}

\* runs of the editing crew
EditRuns ==
  {[raises |-> TRUE, output |-> <<>>]} \cup
  {[raises |-> FALSE, output |-> t] : t \in ModelTexts}

\* the search responses met inside a session
SessionFlightResponses ==
  {FlightRaises,
   [raises |-> FALSE, error |-> "", best_flights |-> <<Flight(1)>>, other_flights |-> <<>>]}

SessionHotelResponses ==
  {HotelRaises,
   [raises |-> FALSE,
    properties |-> <<[name |-> "H1", price |-> <<4000>>],
                     [name |-> "H2", price |-> <<90001>>]>>]}

\* a value of a credential that is set (lines 15-16)
Secret == <<"s", "k">>

\* what the searches answer to a request without api_key (lines 96, 135)
NoKeyFlightResponses ==
  {FlightRaises,
   [raises |-> FALSE, error |-> "Invalid API key.", best_flights |-> <<>>,
    other_flights |-> <<>>]}

NoKeyHotelResponses == {HotelRaises, [raises |-> FALSE, properties |-> <<>>]}

\* the search responses of a session whose search key is serp
FlightAnswers(serp) ==
  IF serp = None THEN NoKeyFlightResponses ELSE SessionFlightResponses

HotelAnswers(serp) ==
  IF serp = None THEN NoKeyHotelResponses ELSE SessionHotelResponses

\* the runs of the two crews when llm holds the key groq (lines 18-22): the
\* first model call of a crew whose llm has no key raises
CrewAnswers(groq) ==
  IF groq = None THEN {[raised_in |-> 1, output |-> None]} ELSE CrewRuns

EditAnswers(groq) ==
  IF groq = None THEN {[raises |-> TRUE, output |-> <<>>]} ELSE EditRuns

Budgets ==
  {<<"l", "o", "w", "-", "r", "a", "n", "g", "e">>,
   <<"m", "i", "d", "-", "r", "a", "n", "g", "e">>,
   <<"l", "u", "x", "u", "r", "y">>,
   <<"L", "u", "x", "u", "r", "y">>,
   <<"c", "h", "e", "a", "p">>}

Cities ==
  {<<" ", "G", "o", "a", " ">>, <<"D", "E", "L", "H", "I">>,
   <<"P", "u", "n", "e">>, <<"n", "e", "w", "y", "o", "r", "k">>}

(***************************************************************************)
(* What the user may type into the chat box (raw, before strip()).         *)
(***************************************************************************)
InGoa == <<" ", "G", "o", "a", " ">>

In7 == <<"7">>

InMinus1 == <<"-", "1">>

InBlank == <<" ">>

UserInputs == {InGoa, In7, InMinus1, InBlank}

(***************************************************************************)
(* Session state (st.session_state) and what one run of the script did.    *)
(***************************************************************************)
VARIABLES
  chat_stage,      \* "collecting" | "planning"
  user_data,       \* dict: a function on a subset of Fields
  last_input,      \* None or the stripped text of the last message
  itinerary_text,  \* "" until synthesis stores a text
  flight_info,     \* result of get_flight_info, unset until synthesis
  hotel_info,      \* result of get_hotel_info, unset until synthesis
  finalized,       \* set at initialisation, never used
  user_input,      \* value st.chat_input returned in the latest run
  shown,           \* assistant messages written by the latest run
  calls,           \* external collaborators invoked by the latest run
  llm_reply,       \* what the model returned to the latest run, None if nothing
  run_end,         \* how the latest run ended: "done" | "rerun" | "fault"
  probe,           \* the latest direct call of a search adapter and its outcome
  GROQ_API_KEY,    \* os.getenv("GROQ_API_KEY"): the key, None when not set
  SERPAPI_API_KEY  \* os.getenv("SERPAPI_API_KEY"): the key, None when not set

vars == <<chat_stage, user_data, last_input, itinerary_text, flight_info,
          hotel_info, finalized, user_input, shown, calls, llm_reply, run_end,
          probe, GROQ_API_KEY, SERPAPI_API_KEY>>

Fields == <<"destination", "days", "budget", "departure">>

\* Put that starts a new dict holding only the new key
Put_replaces(d, k, v) == [x \in {k} |-> v]

Put(d, k, v) == [x \in (DOMAIN d) \cup {k} |-> IF x = k THEN v ELSE d[x]]

\* the session state as one run sees it, with the run's own outputs emptied
Session ==
  [chat_stage |-> chat_stage, user_data |-> user_data, last_input |-> last_input,
   itinerary_text |-> itinerary_text, flight_info |-> flight_info,
   hotel_info |-> hotel_info, shown |-> <<>>, calls |-> <<>>, llm_reply |-> None,
   run_end |-> "done"]

Say(s, m) == [s EXCEPT !.shown = Append(@, m)]

\* lines 34-36
Capture(s, ui) ==
  IF Truthy(ui) THEN [s EXCEPT !.last_input = Strip(ui)] ELSE s

\* lines 40-44
DestinationBranch(s) ==
  LET q == Say(s, AskDestination)
  IN  IF Truthy(q.last_input)
      THEN [q EXCEPT !.user_data = Put(@, "destination", q.last_input),
                     !.last_input = None, !.run_end = "rerun"]
      ELSE q

\* DaysBranch with the ValueError handler storing a default instead of
\* leaving the field unset
DaysBranch_default(s) ==
  LET q == Say(s, AskDays)
      p == ParseInt(q.last_input)
  IN  IF Truthy(q.last_input)
      THEN IF p.ok
           THEN [q EXCEPT !.user_data = Put(@, "days", p.val),
                          !.last_input = None, !.run_end = "rerun"]
           ELSE [Say(q, InvalidNumber) EXCEPT !.user_data = Put(@, "days", 1),
                                              !.last_input = None]
      ELSE q

\* lines 47-55
DaysBranch(s) ==
  LET q == Say(s, AskDays)
      p == ParseInt(q.last_input)
  IN  IF Truthy(q.last_input)
      THEN IF p.ok
           THEN [q EXCEPT !.user_data = Put(@, "days", p.val),
                          !.last_input = None, !.run_end = "rerun"]
           ELSE [Say(q, InvalidNumber) EXCEPT !.last_input = None]
      ELSE q

\* BudgetBranch with the stage change of the last branch pasted in
BudgetBranch_plans(s) ==
  LET q == Say(s, AskBudget)
  IN  IF Truthy(q.last_input)
      THEN [q EXCEPT !.user_data = Put(@, "budget", Strip(Lower(q.last_input))),
                     !.chat_stage = "planning",
                     !.last_input = None, !.run_end = "rerun"]
      ELSE q

\* lines 58-62
BudgetBranch(s) ==
  LET q == Say(s, AskBudget)
  IN  IF Truthy(q.last_input)
      THEN [q EXCEPT !.user_data = Put(@, "budget", Strip(Lower(q.last_input))),
                     !.last_input = None, !.run_end = "rerun"]
      ELSE q

\* DepartureBranch without the stage change
DepartureBranch_stays(s) ==
  LET q == Say(s, AskDeparture)
  IN  IF Truthy(q.last_input)
      THEN [q EXCEPT !.user_data = Put(@, "departure", q.last_input),
                     !.last_input = None, !.run_end = "rerun"]
      ELSE q

\* lines 65-70
DepartureBranch(s) ==
  LET q == Say(s, AskDeparture)
  IN  IF Truthy(q.last_input)
      THEN [q EXCEPT !.user_data = Put(@, "departure", q.last_input),
                     !.chat_stage = "planning",
                     !.last_input = None, !.run_end = "rerun"]
      ELSE q

\* Collecting with the budget test ahead of the days test
Collecting_budget_first(s) ==
  IF s.chat_stage # "collecting" THEN s
  ELSE IF "destination" \notin DOMAIN s.user_data THEN DestinationBranch(s)
  ELSE IF "budget" \notin DOMAIN s.user_data THEN BudgetBranch(s)
  ELSE IF "days" \notin DOMAIN s.user_data THEN DaysBranch(s)
  ELSE IF "departure" \notin DOMAIN s.user_data THEN DepartureBranch(s)
  ELSE s

\* lines 38-70
Collecting(s) ==
  IF s.chat_stage # "collecting" THEN s
  ELSE IF "destination" \notin DOMAIN s.user_data THEN DestinationBranch(s)
  ELSE IF "days" \notin DOMAIN s.user_data THEN DaysBranch(s)
  ELSE IF "budget" \notin DOMAIN s.user_data THEN BudgetBranch(s)
  ELSE IF "departure" \notin DOMAIN s.user_data THEN DepartureBranch(s)
  ELSE s

\* PlanningGuard without the test of the stored itinerary
PlanningGuard_always(s) == s.chat_stage = "planning"

\* line 227
PlanningGuard(s) == s.chat_stage = "planning" /\ ~Truthy(s.itinerary_text)

\* lines 227-233
PlanningBlock(s, fo, hresp, lresp) ==
  LET g == generate_full_itinerary(s.user_data, fo, hresp, lresp)
  IN  IF g.raised
      THEN [s EXCEPT !.calls = @ \o g.calls, !.run_end = "fault"]
      ELSE [s EXCEPT !.calls = @ \o g.calls,
                     !.llm_reply = lresp.output,
                     !.flight_info = g.flights_txt,
                     !.hotel_info = g.hotels_txt,
                     !.itinerary_text = g.itinerary,
                     !.run_end = "rerun"]

\* line 235
RevisionGuard(s) ==
  Truthy(s.last_input) /\ StartsWith(Strip(s.itinerary_text), Day)

\* Accepted with the comparison of the guard at line 235
Accepted_case_sensitive(updated) == StartsWith(Strip(updated), Day)

\* line 279
Accepted(updated) == StartsWith(Lower(Strip(updated)), day)

\* lines 236-285
RevisionBlock(s, edit) ==
  LET c == [s EXCEPT !.calls = Append(@, [to |-> "LLM", params |-> [task |-> "edit_task"]])]
  IN  IF edit.raises THEN [c EXCEPT !.run_end = "fault"]
      ELSE IF Accepted(edit.output)
      THEN [c EXCEPT !.llm_reply = edit.output,
                     !.itinerary_text = edit.output,
                     !.last_input = None, !.run_end = "rerun"]
      ELSE [Say(c, RevisionFailed) EXCEPT !.llm_reply = edit.output,
                                          !.last_input = None, !.run_end = "rerun"]

\* lines 287-297
Display(s) ==
  IF Truthy(s.itinerary_text)
  THEN [s EXCEPT !.shown = @ \o <<"**Flights:**", "<flight_info>", "**Hotels:**",
                                  "<hotel_info>", "**Itinerary:**",
                                  "<itinerary_text>",
                                  "Need any changes? Type them below.">>]
  ELSE s

\* the session state and the run's outputs after the run
Commit(s, ui) ==
  /\ chat_stage' = s.chat_stage
  /\ user_data' = s.user_data
  /\ last_input' = s.last_input
  /\ itinerary_text' = s.itinerary_text
  /\ flight_info' = s.flight_info
  /\ hotel_info' = s.hotel_info
  /\ shown' = s.shown
  /\ calls' = s.calls
  /\ llm_reply' = s.llm_reply
  /\ run_end' = s.run_end
  /\ user_input' = ui
  /\ UNCHANGED <<finalized, probe, GROQ_API_KEY, SERPAPI_API_KEY>>

\* one run of the script, lines 27-297
\* (st.rerun() and an uncaught exception both end the run where they occur;
\* the planning block and the revision block always end in one of the two)
Script(ui) ==
  LET s1 == Collecting(Capture(Session, ui))
  IN  IF s1.run_end # "done" THEN Commit(s1, ui)
      ELSE IF PlanningGuard(s1)
      THEN \E fresp \in FlightAnswers(SERPAPI_API_KEY),
              hresp \in HotelAnswers(SERPAPI_API_KEY),
              lresp \in CrewAnswers(GROQ_API_KEY) :
             \E fo \in get_flight_info(s1.user_data["departure"],
                                       s1.user_data["destination"], fresp) :
               Commit(PlanningBlock(s1, fo, hresp, lresp), ui)
      ELSE IF RevisionGuard(s1)
      THEN \E edit \in EditAnswers(GROQ_API_KEY) : Commit(RevisionBlock(s1, edit), ui)
      ELSE Commit(Display(s1), ui)

\* an adapter's outcome before the adapter has returned
Pending == [result |-> Unset, calls |-> <<>>, raised |-> FALSE]

NoProbe == [fn |-> "none", a |-> <<>>, b |-> <<>>, resp |-> <<>>, done |-> FALSE,
            out |-> Pending]

\* lines 27-32
Init ==
  /\ chat_stage = "collecting"
  /\ user_data = <<>>
  /\ last_input = None
  /\ itinerary_text = <<>>
  /\ flight_info = Unset
  /\ hotel_info = Unset
  /\ finalized = FALSE
  /\ user_input = None
  /\ shown = <<>>
  /\ calls = <<>>
  /\ llm_reply = None
  /\ run_end = "done"
  /\ probe = NoProbe
  /\ GROQ_API_KEY = Secret
  /\ SERPAPI_API_KEY = Secret

\* the user sends a chat message
UserTurn == run_end # "rerun" /\ \E ui \in UserInputs : Script(ui)

\* the page is refreshed without a message
Refresh == run_end # "rerun" /\ Script(None)

\* the run st.rerun() asked for
Rerun == run_end = "rerun" /\ Script(None)

Next == UserTurn \/ Refresh \/ Rerun

Spec == Init /\ [][Next]_vars

\* lines 15-16 and 27-32 when the environment lacks one of the keys or both
InitNoKeys ==
  /\ chat_stage = "collecting"
  /\ user_data = <<>>
  /\ last_input = None
  /\ itinerary_text = <<>>
  /\ flight_info = Unset
  /\ hotel_info = Unset
  /\ finalized = FALSE
  /\ user_input = None
  /\ shown = <<>>
  /\ calls = <<>>
  /\ llm_reply = None
  /\ run_end = "done"
  /\ probe = NoProbe
  /\ GROQ_API_KEY \in {Secret, None}
  /\ SERPAPI_API_KEY \in {Secret, None}
  /\ None \in {GROQ_API_KEY, SERPAPI_API_KEY}

\* the session of a process started without a credential
SpecNoKeys == InitNoKeys /\ [][Next]_vars

(***************************************************************************)
(* The two search adapters called directly, on every input of the bounded  *)
(* sets above.                                                             *)
(***************************************************************************)
session == <<chat_stage, user_data, last_input, itinerary_text, flight_info,
             hotel_info, finalized, user_input, shown, calls, llm_reply, run_end,
             GROQ_API_KEY, SERPAPI_API_KEY>>

Request(fn, a, b, resp) ==
  [fn |-> fn, a |-> a, b |-> b, resp |-> resp, done |-> FALSE, out |-> Pending]

InitAdapters ==
  /\ chat_stage = "collecting"
  /\ user_data = <<>>
  /\ last_input = None
  /\ itinerary_text = <<>>
  /\ flight_info = Unset
  /\ hotel_info = Unset
  /\ finalized = FALSE
  /\ user_input = None
  /\ shown = <<>>
  /\ calls = <<>>
  /\ llm_reply = None
  /\ run_end = "done"
  /\ GROQ_API_KEY = Secret
  /\ SERPAPI_API_KEY = Secret
  /\ \/ \E departure \in Cities, arrival \in Cities, resp \in FlightResponses :
          probe = Request("get_flight_info", departure, arrival, resp)
     \/ \E budget \in Budgets, resp \in HotelResponses :
          probe = Request("get_hotel_info", <<"G", "o", "a">>, budget, resp)

FlightQuery ==
  /\ probe.fn = "get_flight_info" /\ ~probe.done
  /\ \E o \in get_flight_info(probe.a, probe.b, probe.resp) :
       probe' = [probe EXCEPT !.done = TRUE, !.out = o]
  /\ UNCHANGED session

HotelQuery ==
  /\ probe.fn = "get_hotel_info" /\ ~probe.done
  /\ probe' = [probe EXCEPT !.done = TRUE,
                             !.out = get_hotel_info(probe.a, probe.b, probe.resp)]
  /\ UNCHANGED session

NextAdapters == FlightQuery \/ HotelQuery

SpecAdapters == InitAdapters /\ [][NextAdapters]_vars

(***************************************************************************)
(* Properties.                                                             *)
(***************************************************************************)
QuestionOf == <<AskDestination, AskDays, AskBudget, AskDeparture>>

AllFields == Range(Fields)

\* index of the first field user_data lacks, 0 when it has all four
FirstMissing(d) ==
  IF AllFields \subseteq DOMAIN d THEN 0
  ELSE SetMin({i \in 1..4 : Fields[i] \notin DOMAIN d})

PrefixPopulated ==
  \A i \in 1..4 : Fields[i] \in DOMAIN user_data =>
    \A j \in 1..i : Fields[j] \in DOMAIN user_data

\* the message of this run, as the script captures it (lines 34-36)
Message == IF Truthy(user_input') THEN Strip(user_input') ELSE <<>>

CalledLLM(cs) == \E i \in 1..Len(cs) : cs[i].to = "LLM"

CalledTask(cs, t) == \E i \in 1..Len(cs) : cs[i].to = "LLM" /\ cs[i].params.task = t

\* C1: during intake every run asks exactly the question of the first
\* unpopulated field in the order destination, days, budget, departure, and
\* populates at most that field; the populated fields are always a prefix of
\* the order and the question of a populated field is never asked again.
C1_IntakeOrder ==
  [][/\ PrefixPopulated /\ PrefixPopulated'
     /\ \A i \in 1..4 : QuestionOf[i] \in Range(shown') =>
          chat_stage = "collecting" /\ i = FirstMissing(user_data)
     /\ chat_stage = "collecting" /\ FirstMissing(user_data) # 0 =>
          QuestionOf[FirstMissing(user_data)] \in Range(shown')
     /\ \A i \in 1..4 : Fields[i] \in DOMAIN user_data =>
          QuestionOf[i] \notin Range(shown')
     /\ \A f \in (DOMAIN user_data') \ (DOMAIN user_data) :
          chat_stage = "collecting" /\ f = Fields[FirstMissing(user_data)]
     /\ \A f \in DOMAIN user_data :
          f \in DOMAIN user_data' /\ user_data'[f] = user_data[f]
    ]_vars

\* the run that asked the budget question and stored its answer
C1_Witness ==
  /\ DOMAIN user_data = {"destination", "days", "budget"}
  /\ shown = <<AskBudget>>
  /\ run_end = "rerun"
  /\ Truthy(user_input)

DaysPending == chat_stage = "collecting" /\ DOMAIN user_data = {"destination"}

DaysOutcome(text) ==
  IF ParseInt(text).ok
  THEN /\ user_data' = Put(user_data, "days", ParseInt(text).val)
       /\ chat_stage' = chat_stage
       /\ run_end' = "rerun"
  ELSE /\ user_data' = user_data
       /\ chat_stage' = chat_stage
       /\ InvalidNumber \in Range(shown')
       /\ run_end' = "done"

DaysFollowUp ==
  /\ DaysPending => AskDays \in Range(shown')
  /\ chat_stage = "collecting" /\ DOMAIN user_data = {"destination", "days"} =>
       Range(shown') \cap Questions = {AskBudget}

\* C2 as stated: while the days question is pending, any message that does
\* not parse as an integer leaves days unset, changes no other field and not
\* the stage, and shows the error message, and the days question is asked
\* again by the next run; a message that parses as n stores days = n and the
\* next question is the budget question.
C2_AsStated ==
  [][/\ DaysPending /\ Truthy(user_input') => DaysOutcome(Strip(user_input'))
     /\ DaysFollowUp
    ]_vars

\* C2 amended: the same for every message that is not blank (a message of
\* whitespace only is dropped without an error message).
C2_DaysParse ==
  [][/\ DaysPending /\ Truthy(Message) => DaysOutcome(Message)
     /\ DaysFollowUp
    ]_vars

\* the run that rejected a non-numeric answer to the days question
C2_Witness ==
  /\ DOMAIN user_data = {"destination"}
  /\ chat_stage = "collecting"
  /\ shown = <<AskDays, InvalidNumber>>
  /\ user_input = InGoa
  /\ last_input = None

\* C3: the stage changes only from collecting to planning, in the very run
\* that accepts the departure city, and never leaves planning.
C3_PlanningOnce ==
  [][/\ chat_stage' # chat_stage =>
          /\ chat_stage = "collecting" /\ chat_stage' = "planning"
          /\ "departure" \notin DOMAIN user_data
          /\ "departure" \in DOMAIN user_data'
     /\ "departure" \notin DOMAIN user_data /\ "departure" \in DOMAIN user_data' =>
          chat_stage = "collecting" /\ chat_stage' = "planning"
     /\ chat_stage = "planning" => chat_stage' = "planning"
    ]_vars

\* the run that accepted the departure city
C3_Witness ==
  /\ chat_stage = "planning"
  /\ shown = <<AskDeparture>>
  /\ run_end = "rerun"
  /\ "departure" \in DOMAIN user_data

\* C4: the stage is planning only with all four fields populated, and no
\* search or model call is made before that.
C4_FieldsBeforeSynthesis ==
  /\ chat_stage = "planning" => DOMAIN user_data = AllFields
  /\ calls # <<>> => chat_stage = "planning" /\ DOMAIN user_data = AllFields

\* a run that carried synthesis through
C4_Witness ==
  /\ chat_stage = "planning"
  /\ CalledTask(calls, "itinerary_task")
  /\ Truthy(itinerary_text)

\* C5 as stated: once intake has completed, every further (non-blank)
\* message is acted on: the run it starts calls a collaborator, to retry
\* synthesis or to revise the itinerary.
C5_SessionUsable ==
  [][chat_stage = "planning" /\ Truthy(Message) => calls' # <<>>]_vars

InTable(city) == \E e \in iata_mapping : e[1] = Strip(Lower(city))

\* C6 as stated: if the departure city or the destination is no key of the
\* airport table, get_flight_info returns a text result without invoking
\* the search collaborator.
C6_NotFoundShortCircuit ==
  (/\ probe.fn = "get_flight_info" /\ probe.done
   /\ ~InTable(probe.a) \/ ~InTable(probe.b))
  => probe.out.calls = <<>> /\ probe.out.result.kind = "text"

\* C7 as stated: when the search call raises, the adapter (flight or hotel)
\* still returns, with a failure text.
C7_NoPropagation ==
  (probe.done /\ probe.resp.raises)
  => ~probe.out.raised /\ probe.out.result.kind = "text"

Contains(t, p) ==
  \E i \in 1..(Len(t) - Len(p) + 1) : SubSeq(t, i, i + Len(p) - 1) = p

\* the section marker of the format the prompt demands (lines 206-212)
HasSectionMarkers(t) == Contains(t, Day)

\* C8 as stated: when synthesis ran and the model's itinerary response lacks
\* the section markers, the stored itinerary is the fixed failure text.
C8_MalformedSynthesis ==
  (/\ CalledTask(calls, "itinerary_task") /\ run_end = "rerun"
   /\ llm_reply # None /\ ~HasSectionMarkers(llm_reply))
  => itinerary_text = ItineraryFailedText

\* the run made the revision call and the model answered
Revised == CalledTask(calls', "edit_task") /\ run_end' = "rerun"

RevisionOutcome(accepted) ==
  IF accepted
  THEN itinerary_text' = llm_reply'
  ELSE itinerary_text' = itinerary_text /\ RevisionFailed \in Range(shown')

\* C9 as stated: a revision response that does not begin with "day"
\* (case-insensitively) leaves the stored itinerary unchanged and a failure
\* message is shown; one that does becomes the stored itinerary.
C9_AsStated ==
  [][Revised => RevisionOutcome(StartsWith(Lower(llm_reply'), day))]_vars

\* C9 amended: the same, the response being tested after its surrounding
\* whitespace is trimmed (the stored text is the untrimmed response).
C9_RevisionPrefix ==
  [][Revised => RevisionOutcome(StartsWith(Lower(Strip(llm_reply')), day))]_vars

\* a revision whose response was rejected
C9_Witness ==
  /\ CalledTask(calls, "edit_task")
  /\ llm_reply = RespSorry
  /\ RevisionFailed \in Range(shown)
  /\ itinerary_text = RespDay1
  /\ last_input = None

\* the ceilings the claim names
Ceiling(budget) ==
  CASE budget = <<"l", "o", "w", "-", "r", "a", "n", "g", "e">> -> 4000
    [] budget = <<"m", "i", "d", "-", "r", "a", "n", "g", "e">> -> 9000
    [] budget = <<"l", "u", "x", "u", "r", "y">> -> 90000
    [] OTHER -> 9000

HotelDone == probe.fn = "get_hotel_info" /\ probe.done

\* C10: every hotel get_hotel_info lists is a property of the provider's
\* list whose nightly price is at or under the ceiling of the budget string.
C10_PriceCeiling ==
  HotelDone =>
    \A k \in 1..Len(probe.out.result.lines) :
      \E i \in 1..Len(probe.resp.properties) :
        /\ probe.resp.properties[i].name = probe.out.result.lines[k].name
        /\ probe.resp.properties[i].price = <<probe.out.result.lines[k].price>>
        /\ probe.out.result.lines[k].price <= Ceiling(probe.b)

\* an unrecognised budget string: a property at 9000 listed, one at 90000 not
C10_Witness ==
  /\ HotelDone
  /\ probe.b = <<"c", "h", "e", "a", "p">>
  /\ \E i \in 1..Len(probe.resp.properties) :
       probe.resp.properties[i].price = <<90000>>
  /\ \E k \in 1..Len(probe.out.result.lines) :
       probe.out.result.lines[k].price = 9000

\* the i-th smallest element of a set of numbers
Nth(S, j) == CHOOSE i \in S : Cardinality({x \in S : x < i}) = j - 1

\* C11 as stated: on a property list with prices that are non-negative or
\* missing, get_hotel_info lists exactly the first min(3, k) of the k
\* properties priced at or under the ceiling, in the provider's order.
C11_FirstThreeEligible ==
  (HotelDone /\ ~probe.resp.raises) =>
    LET props    == probe.resp.properties
        eligible == {i \in 1..Len(props) :
                       /\ props[i].price # <<>>
                       /\ props[i].price[1] <= Ceiling(probe.b)}
        k        == Cardinality(eligible)
        n        == IF k < 3 THEN k ELSE 3
        lines    == probe.out.result.lines
    IN  /\ Len(lines) = n
        /\ \A j \in 1..n : lines[j].name = props[Nth(eligible, j)].name

\* C12: a script run never removes an accepted field of user_data and never
\* changes its value.
C12_FieldsImmutable ==
  [][\A f \in DOMAIN user_data :
       f \in DOMAIN user_data' /\ user_data'[f] = user_data[f]]_vars

\* C12's case: all four fields are held and a revision has just replaced
\* the itinerary.
C12_Witness ==
  /\ DOMAIN user_data = AllFields
  /\ CalledTask(calls, "edit_task")
  /\ itinerary_text = llm_reply
  /\ run_end = "rerun"

\* every call of the run is the model call of the revision crew
OnlyRevisionCalls(cs) ==
  \A i \in 1..Len(cs) : cs[i].to = "LLM" /\ cs[i].params.task = "edit_task"

FlightDone == probe.fn = "get_flight_info" /\ probe.done

\* the prefix the adapter puts before the text of a failure (line 119)
FailureMarker == "Exception occurred while fetching flights: "

\* C14 as stated: when the search response carries an error reported by the
\* provider, get_flight_info returns a text made of a failure marker and
\* that error text.
C14_ProviderErrorSurfaced ==
  (FlightDone /\ ~probe.resp.raises /\ probe.resp.error # "") =>
    /\ probe.out.result.kind = "text"
    /\ probe.out.result.text = FailureMarker \o probe.resp.error

CredentialMissing == GROQ_API_KEY = None \/ SERPAPI_API_KEY = None

\* C15 as stated: when the model key or the search key is missing, no run
\* makes a search call or a model call.
C15_PlanningBlocked == CredentialMissing => calls = <<>>

\* C16 as stated: a populated days field holds an integer of at least 1.
C16_DaysPositive == "days" \in DOMAIN user_data => user_data["days"] >= 1

IsLLM(c) == c.to = "LLM"

\* the tasks of the model calls of a run, in the order of the calls
LLMTasks(cs) == [i \in 1..Len(SelectSeq(cs, IsLLM)) |-> SelectSeq(cs, IsLLM)[i].params.task]

\* the run entered the planning block
Synthesised == calls # <<>> /\ ~CalledTask(calls, "edit_task")

CrewTasks == <<"flight_task", "hotel_task", "itinerary_task">>

\* C17 as stated: a run of generate_full_itinerary that returns has made
\* exactly one model call.
C17_AsStated ==
  (Synthesised /\ run_end = "rerun") => Len(LLMTasks(calls)) = 1

\* C17: a run of generate_full_itinerary starts the crew once, with no
\* retry: the model calls of the run are the crew's tasks flight_task,
\* hotel_task, itinerary_task, once each and in this order, up to the first
\* call that raises; a run that returns has made all three.
C17_OneKickoff ==
  Synthesised =>
    /\ Len(LLMTasks(calls)) <= 3
    /\ LLMTasks(calls) = SubSeq(CrewTasks, 1, Len(LLMTasks(calls)))
    /\ run_end = "rerun" => LLMTasks(calls) = CrewTasks

\* C17's case: synthesis returned and its three model calls are on record
C17_Witness ==
  /\ Synthesised
  /\ run_end = "rerun"
  /\ Len(LLMTasks(calls)) = 3
  /\ itinerary_text = llm_reply

\* the list get_flight_info is to summarise
Chosen(resp) ==
  IF resp.best_flights # <<>> THEN resp.best_flights ELSE resp.other_flights

\* C18: on a search response, get_flight_info summarises best_flights when
\* it is non-empty and other_flights otherwise, returns the none-found text
\* when both are empty, and else returns one line per flight for the first
\* min(3, n) flights of the chosen list, in the provider's order, each line
\* with the carriers and the price of its flight.
C18_FlightSummary ==
  (FlightDone /\ ~probe.resp.raises) =>
    LET chosen == Chosen(probe.resp)
        n      == Len(chosen)
        m      == IF n < 3 THEN n ELSE 3
        r      == probe.out.result
    IN  IF n = 0 THEN r = TextResult(NoFlightsText)
        ELSE /\ r.kind = "lines"
             /\ Len(r.lines) = m
             /\ \A k \in 1..m :
                  /\ r.lines[k].price = chosen[k].price
                  /\ Range(r.lines[k].carrier) = Range(chosen[k].flights)

\* C18's case: best_flights is empty and other_flights holds more than
\* three flights; the first three of other_flights are summarised.
C18_Witness ==
  /\ FlightDone
  /\ probe.resp.best_flights = <<>>
  /\ Len(probe.resp.other_flights) > 3
  /\ Len(probe.out.result.lines) = 3
  /\ probe.out.result.lines[1].price = probe.resp.other_flights[1].price

\* C19 as stated: a response the revision block accepts and stores
\* satisfies the itinerary test of the guard of the revision block.
C19_StaysRevisable ==
  (CalledTask(calls, "edit_task") /\ run_end = "rerun" /\ itinerary_text = llm_reply)
  => StartsWith(Strip(itinerary_text), Day)

\* the run applied the message held in last_input: it populated a field or
\* made the revision call
Consumed ==
  \/ DOMAIN user_data' # DOMAIN user_data
  \/ CalledTask(calls', "edit_task")

\* C20 as stated: the run that applies a message clears last_input, so that
\* no later run applies the message again.
C20_AppliedOnce == [][Consumed => last_input' = None]_vars
====
